---- MODULE Spec2Model ----
(***************************************************************************)
(* Model of src/app/page.tsx: the Home component of the cryptocurrency     *)
(* dashboard.  Two parts share the module:                                 *)
(*   - the data-fetch lifecycle (fetchCryptoData, the scheduling effect,   *)
(*     the Refresh button), specification Spec;                            *)
(*   - the favorites store (useState initialiser, toggleFavorite, the      *)
(*     persistence effect), specification SpecFav.                         *)
(*                                                                         *)
(* Time.  The code reads Date.now() and compares differences of times with *)
(* fixed thresholds, so the model keeps AGES instead of absolute times:    *)
(* sinceLast is Date.now() - lastFetchTime, a trigger's clk is the time    *)
(* since `const now = Date.now()` of its current attempt, cAge is          *)
(* Date.now() - lastFetchTime for the lastFetchTime its closure captured.  *)
(* sinceLast saturates at FETCH_TIMEOUT, above every age a response can    *)
(* write; cAge is only compared with the 10000 ms of line 47 and saturates *)
(* there.  Timers fire when they are due; a response arrives after one of  *)
(* the Latencies, all below FETCH_TIMEOUT.                                 *)
(*                                                                         *)
(* React.  State updates made in one task are batched and followed by one  *)
(* render and its effects (React 18, which 'use client' implies); a        *)
(* continuation of an awaited promise (line 133) runs before that render.  *)
(* The component stays mounted.                                            *)
(***************************************************************************)
EXTENDS Integers, Sequences, FiniteSets, TLC

\* ---------------------------------------------------------------- constants
FETCH_TIMEOUT == 15000
RETRY_DELAY == 3000
MAX_RETRIES == 3
AUTO_REFRESH_INTERVAL == 60000
\* the literal 10000 of the skip guard (line 47) and of the button (line 256)
THROTTLE == 10000

\* ------------------------------------------------------------------- bounds
\* concurrent calls of fetchCryptoData the model follows
MaxProcs == 2
\* intervals alive at once (the current one and the ones never cleared)
MaxIntervals == 1
\* clicks on the Refresh button in one run
MaxClicks == 2
\* intervals and calls are followed up to these counts; time moves from one
\* instant at which something can happen to the next

Procs == 1..MaxProcs

\* ------------------------------------------------------------ the collaborator
\* JSON array bodies the endpoint answers with, as the sequence of ids
Bodies == {<<"bitcoin", "dogecoin">>}
\* outcomes of one HTTP request other than the abort by the timeout timer:
\*   ok       status 200 and an array body
\*   rate     status 429
\*   http     another non-OK status (500)
\*   invalid  status 200 and a body that is no array
Outcomes == {"ok", "rate", "http", "invalid"}
\* the latencies of a response, in ms: a prompt one and a slow one
Latencies == {0, 12000}

NoError == "null"
RateLimitMsg == "Rate limit exceeded. Please wait a moment before refreshing."
HttpMsg == "Failed to fetch data (HTTP 500)"
InvalidMsg == "Invalid data received from the server"
TimedOutMsg == "Request timed out. Please try again."

VARIABLES
    phase,          \* "init" (rendered, effects not yet run), "mounted", or
                    \* "halted" (the run went beyond the bounds)
    cryptoData,     \* useState<CryptoData[]>([]), as the sequence of ids
    loading,        \* useState(true)
    error,          \* useState<string | null>(null)
    sinceLast,      \* Date.now() - lastFetchTime, saturated
    isRefreshing,   \* useState(false)
    btnDisabled,    \* the Refresh button's `disabled`, as last rendered
    procs,          \* the calls of fetchCryptoData in progress
    intervals,      \* the setInterval timers that are active
    ev,             \* history: what the last step did
    clicks,         \* history: the clicks on Refresh so far
    sinceAutoOk,    \* history: time since an automatic fetch succeeded
    favorites,      \* useState<string[]>
    storage,        \* localStorage['cryptoFavorites']: text, or <<>> if absent
    persistDue,     \* the persistence effect is scheduled
    favInit,        \* history: favorites at the load of this instance
    toggles,        \* history: parity of the toggles of each id since the load
    today,          \* the day of new Date() (line 166)
    view            \* history: the last evaluation of filterCryptos

fetchVars == <<phase, cryptoData, loading, error, sinceLast, isRefreshing,
               btnDisabled, procs, intervals, ev, clicks, sinceAutoOk>>
favVars == <<favorites, storage, persistDue, favInit, toggles>>
viewVars == <<today, view>>
vars == <<fetchVars, favVars, viewVars>>

Min(a, b) == IF a < b THEN a ELSE b
Sat(x) == Min(x, FETCH_TIMEOUT)
SatC(x) == Min(x, THROTTLE)

\* ------------------------------------------------------- fetchCryptoData
FreeProc == [st |-> "free", manual |-> FALSE, retries |-> 0, cAge |-> 0,
             cLen |-> 0, clk |-> 0, run |-> "none", reqs |-> 0]

\* The component's state and the tasks around it, threaded through the
\* operators below; ok turns FALSE when a bound of the model is exceeded.
World == [cryptoData |-> cryptoData,
          loading |-> loading, error |-> error, sinceLast |-> sinceLast,
          isRefreshing |-> isRefreshing, procs |-> procs,
          intervals |-> intervals, ok |-> TRUE,
          \* what the step did: how the call ended, the message its catch
          \* block passed to setError, the requests issued by automatic
          \* and by manual calls
          result |-> "none", shown |-> NoError, autoReqs |-> 0,
          manualReqs |-> 0]

\* the closure of the fetchCryptoData created by the current render
Closure(w) == [age |-> SatC(w.sinceLast), len |-> Len(w.cryptoData)]

\* line 47: the call returns without a request
SkipGuard(cl, isManualRefresh) ==
    ~isManualRefresh /\ cl.age < THROTTLE /\ cl.len > 0

\* lines 51-55 and 120-124: the busy flag of the trigger's kind
SetBusy(w, isManualRefresh, v) ==
    IF isManualRefresh THEN [w EXCEPT !.isRefreshing = v]
    ELSE [w EXCEPT !.loading = v]

SetError(w, msg) == [w EXCEPT !.error = msg]

\* setError in the catch block (lines 107-112)
ShowError(w, msg) == [w EXCEPT !.error = msg, !.shown = msg]

FreeSlots(w) == {p \in Procs : w.procs[p].st = "free"}
FreeSlot(w) == CHOOSE p \in FreeSlots(w) : \A q \in FreeSlots(w) : p <= q

\* lines 64-78: fetch(...) is called
Request(w, isManualRefresh) ==
    IF isManualRefresh THEN [w EXCEPT !.manualReqs = @ + 1]
    ELSE [w EXCEPT !.autoReqs = @ + 1]

\* lines 51-78 of a call from outside: flags, then the request is issued
StartAttempt(w, cl, retries, isManualRefresh, run) ==
    IF FreeSlots(w) = {} THEN [w EXCEPT !.ok = FALSE]
    ELSE LET w1 == SetError(SetBusy(w, isManualRefresh, TRUE), NoError)
         IN Request([w1 EXCEPT !.procs[FreeSlot(w)] =
                        [st |-> "inflight", manual |-> isManualRefresh,
                         retries |-> retries, cAge |-> cl.age,
                         cLen |-> cl.len, clk |-> 0, run |-> run,
                         reqs |-> 1]],
                    isManualRefresh)

\* line 133: setInterval(() => fetchCryptoData(), AUTO_REFRESH_INTERVAL)
SetInterval(w, cl, live) ==
    IF Len(w.intervals) >= MaxIntervals THEN [w EXCEPT !.ok = FALSE]
    ELSE [w EXCEPT !.intervals = Append(@,
              [rem |-> AUTO_REFRESH_INTERVAL, cAge |-> cl.age,
               cLen |-> cl.len, live |-> live])]

\* lines 45-78: a call of fetchCryptoData from outside, up to its first await
FetchCryptoData(w, cl, retries, isManualRefresh, run) ==
    IF SkipGuard(cl, isManualRefresh) THEN w
    ELSE StartAttempt(w, cl, retries, isManualRefresh, run)

\* lines 131-136: initFetch of a new effect run; a call that returned at
\* line 48 lets it go on to line 133 at once
InitFetch(w) ==
    IF SkipGuard(Closure(w), FALSE)
    THEN SetInterval(w, Closure(w), TRUE)
    ELSE FetchCryptoData(w, Closure(w), MAX_RETRIES, FALSE, "cur")

\* lines 138-142: the cleanup of the current effect run.  intervalId is set
\* only once the run's initFetch has passed its await.
Cleanup(w) ==
    [w EXCEPT
       !.intervals = SelectSeq(@, LAMBDA t : ~t.live),
       !.procs = [p \in Procs |->
                    IF @[p].run = "cur" THEN [@[p] EXCEPT !.run = "stale"]
                    ELSE @[p]]]

\* line 143 and line 126: the effect runs again when fetchCryptoData changed
DepsChanged(w0, w) ==
    \/ w0.sinceLast # w.sinceLast
    \/ Len(w0.cryptoData) # Len(w.cryptoData)

Effects(w0, w) ==
    IF DepsChanged(w0, w) THEN InitFetch(Cleanup(w)) ELSE w

\* the call p has returned: its slot is free, and an initFetch that awaited
\* it goes on to line 133
Finish(w, p) ==
    LET pr == w.procs[p]
        w1 == [w EXCEPT !.procs[p] = FreeProc]
    IN IF pr.run = "none" THEN w1
       ELSE SetInterval(w1, [age |-> pr.cAge, len |-> pr.cLen], pr.run = "cur")

\* the success path without line 97
SucceedKeepsError(w, p, data) ==
    LET pr == w.procs[p]
        w1 == [w EXCEPT !.cryptoData = data, !.sinceLast = Sat(pr.clk),
                        !.result = "ok"]
    IN Effects(w, Finish(SetBusy(w1, pr.manual, FALSE), p))

\* lines 95-97, then finally
Succeed(w, p, data) ==
    LET pr == w.procs[p]
        w1 == [w EXCEPT !.cryptoData = data, !.sinceLast = Sat(pr.clk),
                        !.error = NoError, !.result = "ok"]
    IN Effects(w, Finish(SetBusy(w1, pr.manual, FALSE), p))

\* a catch block that throws the error again: an initFetch awaiting the
\* call never reaches line 133
FailRethrow(w, p, msg) ==
    LET pr == w.procs[p]
        w1 == [ShowError(w, msg) EXCEPT !.result = "fail"]
        w2 == IF pr.cLen = 0 THEN [w1 EXCEPT !.cryptoData = <<>>] ELSE w1
    IN Effects(w, [SetBusy(w2, pr.manual, FALSE) EXCEPT !.procs[p] = FreeProc])

\* the catch block without the finally block after it
FailKeepsBusy(w, p, msg) ==
    LET pr == w.procs[p]
        w1 == [ShowError(w, msg) EXCEPT !.result = "fail"]
        w2 == IF pr.cLen = 0 THEN [w1 EXCEPT !.cryptoData = <<>>] ELSE w1
    IN Effects(w, Finish(w2, p))

\* lines 107-118 with the message chosen, then finally
Fail(w, p, msg) ==
    LET pr == w.procs[p]
        w1 == [ShowError(w, msg) EXCEPT !.result = "fail"]
        w2 == IF pr.cLen = 0 THEN [w1 EXCEPT !.cryptoData = <<>>] ELSE w1
    IN Effects(w, Finish(SetBusy(w2, pr.manual, FALSE), p))

\* line 104: the call waits RETRY_DELAY
Wait(w, p) ==
    [w EXCEPT !.procs[p].st = "waiting", !.procs[p].clk = 0,
              !.result = "wait"]

\* lines 82-93 and 108-110: the message of a failed request
MessageOf(outcome) ==
    CASE outcome = "rate" -> RateLimitMsg
      [] outcome = "http" -> HttpMsg
      [] OTHER -> InvalidMsg

\* the catch block without the test of line 102: every error is retried
CatchRetryAll(w, p, outcome) ==
    IF w.procs[p].retries > 0 THEN Wait(w, p)
    ELSE Fail(w, p, IF outcome = "abort" THEN TimedOutMsg
                    ELSE MessageOf(outcome))

\* lines 98-118: the catch block; outcome "abort" is the AbortError
Catch(w, p, outcome) ==
    IF outcome = "abort"
    THEN IF w.procs[p].retries > 0 THEN Wait(w, p)
         ELSE Fail(w, p, TimedOutMsg)
    ELSE Fail(w, p, MessageOf(outcome))

\* lines 80-118: the request of call p has ended
Settle(w, p, outcome, data) ==
    IF outcome = "ok" THEN Succeed(w, p, data) ELSE Catch(w, p, outcome)

\* the recursive call with `retries` instead of `retries - 1`
RetryCallSameRetries(w, p) ==
    LET pr == w.procs[p]
        w1 == SetError(SetBusy([w EXCEPT !.result = "retry"],
                               pr.manual, TRUE), NoError)
        w2 == [w1 EXCEPT !.procs[p].st = "inflight",
                         !.procs[p].clk = 0,
                         !.procs[p].reqs = Min(pr.reqs + 1, MAX_RETRIES + 2)]
    IN SetBusy(Request(w2, pr.manual), pr.manual, FALSE)

\* line 105: the recursive call, then the finally of the caller (120-124)
RetryCall(w, p) ==
    LET pr == w.procs[p]
        cl == [age |-> pr.cAge, len |-> pr.cLen]
    IN IF SkipGuard(cl, pr.manual)
       THEN Effects(w, Finish(SetBusy([w EXCEPT !.result = "skip"],
                                      pr.manual, FALSE), p))
       ELSE LET w1 == SetError(SetBusy([w EXCEPT !.result = "retry"],
                                       pr.manual, TRUE), NoError)
                w2 == [w1 EXCEPT !.procs[p].st = "inflight",
                                 !.procs[p].retries = pr.retries - 1,
                                 !.procs[p].clk = 0,
                                 !.procs[p].reqs = Min(pr.reqs + 1, MAX_RETRIES + 2)]
            IN SetBusy(Request(w2, pr.manual), pr.manual, FALSE)

\* line 256, evaluated by a render
Disabled(w) == w.isRefreshing \/ w.sinceLast < THROTTLE

\* line 235: the spinner replaces the page
Spinner == loading /\ Len(cryptoData) = 0

StateChanged(w) ==
    \/ w.cryptoData # cryptoData \/ w.loading # loading \/ w.error # error
    \/ w.sinceLast # sinceLast \/ w.isRefreshing # isRefreshing

\* the step's result becomes the next state, and a change of state renders;
\* a step that needs more calls or intervals than the bounds allow ends the
\* run instead
Commit(w, e, c, a) ==
    IF w.ok
    THEN /\ phase' = "mounted"
         /\ cryptoData' = w.cryptoData
         /\ loading' = w.loading
         /\ error' = w.error
         /\ sinceLast' = w.sinceLast
         /\ isRefreshing' = w.isRefreshing
         /\ procs' = w.procs
         /\ intervals' = w.intervals
         /\ btnDisabled' = IF StateChanged(w) THEN Disabled(w) ELSE btnDisabled
         /\ ev' = e
         /\ clicks' = c
         /\ sinceAutoOk' = a
    ELSE /\ phase' = "halted"
         /\ UNCHANGED <<cryptoData, loading, error, sinceLast, isRefreshing,
                        procs, intervals, btnDisabled, ev, clicks, sinceAutoOk>>

\* history: the call the step was about (manual, the outcome of its request,
\* the requests it has issued) and what the step did
Event(w, op, manual, kind, n) ==
    [op |-> op, manual |-> manual, kind |-> kind, n |-> n,
     autoReqs |-> w.autoReqs, manualReqs |-> w.manualReqs, msg |-> w.shown]

\* a step that neither starts nor ends a call
Quiet == [op |-> "none", manual |-> FALSE, kind |-> "none", n |-> 0,
          autoReqs |-> 0, manualReqs |-> 0, msg |-> NoError]

\* the history of automatic successes is kept while no manual refresh was made
AutoOkAfter(op, manual) ==
    IF clicks > 0 THEN AUTO_REFRESH_INTERVAL
    ELSE IF op = "ok" /\ ~manual THEN 0
    ELSE sinceAutoOk

\* ---------------------------------------------------------------- actions
\* the first run of the scheduling effect (lines 128-136)
MountEffect ==
    /\ phase = "init"
    /\ LET w == InitFetch(World)
       IN Commit(w, Event(w, "mount", FALSE, "none", 0), clicks, sinceAutoOk)
    /\ UNCHANGED <<favVars, viewVars>>

\* the endpoint answers the request of call p before the abort timer is due
Respond(p, outcome, data) ==
    /\ phase = "mounted"
    /\ procs[p].st = "inflight"
    /\ procs[p].clk \in Latencies
    /\ procs[p].clk < FETCH_TIMEOUT
    /\ LET w == Settle(World, p, outcome, data)
       IN Commit(w, Event(w, w.result, procs[p].manual, outcome, procs[p].reqs),
                 clicks, AutoOkAfter(w.result, procs[p].manual))
    /\ UNCHANGED <<favVars, viewVars>>

\* lines 59-61: the abort timer of call p fires
Timeout(p) ==
    /\ phase = "mounted"
    /\ procs[p].st = "inflight"
    /\ procs[p].clk = FETCH_TIMEOUT
    /\ LET w == Settle(World, p, "abort", <<>>)
       IN Commit(w, Event(w, w.result, procs[p].manual, "abort", procs[p].reqs),
                 clicks, sinceAutoOk)
    /\ UNCHANGED <<favVars, viewVars>>

\* lines 104-105: the RETRY_DELAY timer of call p fires
Retry(p) ==
    /\ phase = "mounted"
    /\ procs[p].st = "waiting"
    /\ procs[p].clk = RETRY_DELAY
    /\ LET w == RetryCall(World, p)
       IN Commit(w, Event(w, w.result, procs[p].manual, "none", w.procs[p].reqs),
                 clicks, sinceAutoOk)
    /\ UNCHANGED <<favVars, viewVars>>

\* line 133: the callback of interval i
Tick(i) ==
    /\ phase = "mounted"
    /\ i \in 1..Len(intervals)
    /\ intervals[i].rem = 0
    /\ LET t == intervals[i]
           w0 == [World EXCEPT !.intervals[i].rem = AUTO_REFRESH_INTERVAL]
           w == FetchCryptoData(w0, [age |-> t.cAge, len |-> t.cLen],
                                MAX_RETRIES, FALSE, "none")
       IN Commit(w, Event(w, "tick", FALSE, "none", 0), clicks, sinceAutoOk)
    /\ UNCHANGED <<favVars, viewVars>>

\* lines 252-257: a click on the Refresh button as it was last rendered
Click(c) ==
    /\ phase = "mounted"
    /\ ~Spinner
    /\ ~btnDisabled
    /\ LET w == FetchCryptoData(World, Closure(World), MAX_RETRIES, TRUE, "none")
       IN Commit(w, Event(w, "click", TRUE, "none", 0), c,
                 AUTO_REFRESH_INTERVAL)
    /\ UNCHANGED <<favVars, viewVars>>

\* one of the MaxClicks clicks of a run, at any moment
ManualRefresh ==
    /\ clicks < MaxClicks
    /\ Click(clicks + 1)

\* a click of a user who waits for the calls in progress to end; these
\* clicks are not counted
PatientRefresh ==
    /\ \A p \in Procs : procs[p].st = "free"
    /\ Click(MaxClicks)

\* a render for a reason outside the fetch lifecycle (toggleFavorite)
Rerender ==
    /\ phase = "mounted"
    /\ btnDisabled # Disabled(World)
    /\ btnDisabled' = Disabled(World)
    /\ ev' = Quiet
    /\ UNCHANGED <<phase, cryptoData, loading, error, sinceLast, isRefreshing,
                   procs, intervals, clicks, sinceAutoOk>>
    /\ UNCHANGED <<favVars, viewVars>>

\* time passes, up to the next instant at which a timer is due, a response
\* can arrive or the button's condition (line 256) changes
InFlight == {p \in Procs : procs[p].st = "inflight"}
Waiting == {p \in Procs : procs[p].st = "waiting"}

TimerDue ==
    \/ \E p \in InFlight : procs[p].clk = FETCH_TIMEOUT
    \/ \E p \in Waiting : procs[p].clk = RETRY_DELAY
    \/ \E i \in 1..Len(intervals) : intervals[i].rem = 0

Ahead ==
    {FETCH_TIMEOUT - procs[p].clk : p \in InFlight}
    \cup {RETRY_DELAY - procs[p].clk : p \in Waiting}
    \cup {intervals[i].rem : i \in 1..Len(intervals)}
    \cup {l - procs[p].clk : p \in InFlight, l \in Latencies}
    \cup {THROTTLE - sinceLast, AUTO_REFRESH_INTERVAL}

Delay == CHOOSE d \in Ahead : d > 0 /\ \A e \in Ahead : e > 0 => d <= e

Advance ==
    /\ phase = "mounted"
    /\ ~TimerDue
    /\ sinceLast' = Sat(sinceLast + Delay)
    /\ procs' = [p \in Procs |->
                   IF procs[p].st = "free" THEN procs[p]
                   ELSE [procs[p] EXCEPT !.clk = @ + Delay,
                                         !.cAge = SatC(@ + Delay)]]
    /\ intervals' = [i \in 1..Len(intervals) |->
                       [intervals[i] EXCEPT !.rem = @ - Delay,
                                            !.cAge = SatC(@ + Delay)]]
    /\ sinceAutoOk' = Min(sinceAutoOk + Delay, AUTO_REFRESH_INTERVAL)
    /\ ev' = Quiet
    /\ UNCHANGED <<phase, cryptoData, loading, error, isRefreshing,
                   btnDisabled, clicks>>
    /\ UNCHANGED <<favVars, viewVars>>

InitFetchVars ==
    /\ phase = "init"
    /\ cryptoData = <<>>
    /\ loading = TRUE
    /\ error = NoError
    /\ sinceLast = FETCH_TIMEOUT
    /\ isRefreshing = FALSE
    /\ btnDisabled = FALSE
    /\ procs = [p \in Procs |-> FreeProc]
    /\ intervals = <<>>
    /\ ev = Quiet
    /\ clicks = 0
    /\ sinceAutoOk = AUTO_REFRESH_INTERVAL

\* no filter view has been evaluated; days are counted from FirstDay
FirstDay == 40
NoView == [category |-> "none", result |-> <<>>, data |-> <<>>,
           favs |-> <<>>, day |-> 0]

InitViewVars ==
    /\ today = FirstDay
    /\ view = NoView

\* ------------------------------------------------------- favorites store
\* ids a listing can have
Ids == {"bitcoin", "dogecoin", "pepe"}
\* length of the list a previous session left in localStorage
MaxStored == 2

RECURSIVE SeqsUpTo(_)
SeqsUpTo(n) ==
    IF n = 0 THEN {<<>>}
    ELSE SeqsUpTo(n - 1)
         \cup {Append(l, id) : l \in {m \in SeqsUpTo(n - 1) : Len(m) = n - 1},
                               id \in Ids}

Range(l) == {l[i] : i \in 1..Len(l)}
NoDup(l) == \A i, j \in 1..Len(l) : l[i] = l[j] => i = j

\* JSON text is the sequence of its tokens; a string literal is one token
Quote(id) == "\"" \o id \o "\""
Unquote(tok) == CHOOSE id \in Ids : Quote(id) = tok

RECURSIVE Join(_)
Join(l) ==
    IF l = <<>> THEN <<>>
    ELSE IF Len(l) = 1 THEN <<Quote(l[1])>>
    ELSE <<Quote(l[1]), ",">> \o Join(Tail(l))

\* line 147: JSON.stringify(favorites)
Stringify(l) == <<"[">> \o Join(l) \o <<"]">>

RECURSIVE ParseItems(_)
ParseItems(ts) ==
    IF ts = <<>> THEN <<>>
    ELSE IF Len(ts) = 1 THEN <<Unquote(ts[1])>>
    ELSE <<Unquote(ts[1])>> \o ParseItems(SubSeq(ts, 3, Len(ts)))

\* line 36: JSON.parse(saved), for the texts JSON.stringify writes
Parse(text) == ParseItems(SubSeq(text, 2, Len(text) - 1))

\* the initialiser on the server, where window is undefined (line 38)
InitialFavoritesNoWindow(saved) == <<>>

\* lines 33-39: the initialiser of favorites; saved is <<>> for a missing key
InitialFavorites(saved) == IF saved # <<>> THEN Parse(saved) ELSE <<>>

\* the updater with the test of line 154 inverted
ToggledKeepOnly(prev, cryptoId) ==
    IF cryptoId \in Range(prev)
    THEN SelectSeq(prev, LAMBDA id : id = cryptoId)
    ELSE Append(prev, cryptoId)

\* lines 152-156: the updater of toggleFavorite
Toggled(prev, cryptoId) ==
    IF cryptoId \in Range(prev)
    THEN SelectSeq(prev, LAMBDA id : id # cryptoId)
    ELSE Append(prev, cryptoId)

\* lines 151-157: toggleFavorite; the new list schedules the effect
ToggleFavorite(cryptoId) ==
    /\ favorites' = Toggled(favorites, cryptoId)
    /\ persistDue' = TRUE
    /\ toggles' = [toggles EXCEPT ![cryptoId] = 1 - @]
    /\ UNCHANGED <<storage, favInit>>
    /\ UNCHANGED <<fetchVars, viewVars>>

\* lines 145-149: the persistence effect
PersistEffect ==
    /\ persistDue
    /\ storage' = Stringify(favorites)
    /\ persistDue' = FALSE
    /\ UNCHANGED <<favorites, favInit, toggles>>
    /\ UNCHANGED <<fetchVars, viewVars>>

\* the page is loaded again: lines 33-39, and the effect runs on mount
Reload ==
    /\ favorites' = InitialFavorites(storage)
    /\ favInit' = InitialFavorites(storage)
    /\ toggles' = [id \in Ids |-> 0]
    /\ persistDue' = TRUE
    /\ UNCHANGED storage
    /\ UNCHANGED <<fetchVars, viewVars>>

\* a first load with nothing stored
InitFavVars ==
    /\ storage = <<>>
    /\ favorites = InitialFavorites(storage)
    /\ favInit = favorites
    /\ toggles = [id \in Ids |-> 0]
    /\ persistDue = TRUE

\* a load after a session that left a list in localStorage
InitFav ==
    /\ InitFetchVars
    /\ InitViewVars
    /\ storage \in {<<>>} \cup {Stringify(l) : l \in SeqsUpTo(MaxStored)}
    /\ favorites = InitialFavorites(storage)
    /\ favInit = favorites
    /\ toggles = [id \in Ids |-> 0]
    /\ persistDue = TRUE

NextFav ==
    \/ \E id \in Ids : ToggleFavorite(id)
    \/ PersistEffect
    \/ Reload

SpecFav == InitFav /\ [][NextFav]_vars

\* ----------------------------------------------------------- filter views
MEME_COINS == {"dogecoin", "shiba-inu", "pepe", "floki", "bonk"}
HOT_THRESHOLD == 1000000000
NEW_THRESHOLD == 30
\* slice(0, 10) of lines 172 and 176
TOP == 10

Categories == {"all", "favorites", "hot", "new", "gainers", "meme"}

\* length of the fetched lists whose listings vary in every field
MaxLen == 2
\* length of the fetched lists that are longer than TOP
MaxLong == 11
\* days that pass while the page is open
MaxDays == 1

\* the fields of a listing the filters read; ath_date and today are day numbers
Volumes == {HOT_THRESHOLD - 1, HOT_THRESHOLD}
AthDates == {FirstDay - NEW_THRESHOLD, FirstDay - NEW_THRESHOLD + 1}
Changes == {-1, 2}
Listings ==
    [id : Ids, total_volume : Volumes, ath_date : AthDates,
     price_change_percentage_24h : Changes]

RECURSIVE ListsOf(_, _)
ListsOf(S, n) ==
    IF n = 0 THEN {<<>>}
    ELSE {Append(l, x) : l \in ListsOf(S, n - 1), x \in S}

ShortLists == UNION {ListsOf(Listings, n) : n \in 0..MaxLen}
LongLists ==
    ListsOf({x \in Listings : /\ x.id = "bitcoin"
                              /\ x.total_volume = HOT_THRESHOLD
                              /\ x.ath_date = FirstDay - NEW_THRESHOLD},
            MaxLong)
FavoriteLists == {<<>>, <<"pepe">>, <<"dogecoin", "bitcoin">>}

\* the comparator with its operands exchanged
CompareAscending(a, b) ==
    a.price_change_percentage_24h - b.price_change_percentage_24h

\* line 171: the comparator (a, b) => b.pct - a.pct
Compare(a, b) == b.price_change_percentage_24h - a.price_change_percentage_24h

\* Array.prototype.sort is stable: x goes behind every element that the
\* comparator does not put behind it
RECURSIVE Insert(_, _)
Insert(l, x) ==
    IF l = <<>> THEN <<x>>
    ELSE IF Compare(l[1], x) <= 0 THEN <<l[1]>> \o Insert(Tail(l), x)
    ELSE <<x>> \o l

RECURSIVE SortFrom(_, _)
SortFrom(done, rest) ==
    IF rest = <<>> THEN done
    ELSE SortFrom(Insert(done, rest[1]), Tail(rest))

Sort(l) == SortFrom(<<>>, l)

\* slice(0, n)
Slice(l, n) == SubSeq(l, 1, Min(n, Len(l)))

\* an evaluation: what it returns, and the two arrays after it
Returned(result, data, favs) ==
    [result |-> result, cryptoData |-> data, favorites |-> favs]

\* cryptoData.sort(...) without the spread: the state array is sorted
GainersInPlace(data, favs) ==
    Returned(Slice(Sort(data), TOP), Sort(data), favs)

\* lines 170-172: the spread copies the array, sort works on the copy
Gainers(data, favs) ==
    LET copy == data
    IN Returned(Slice(Sort(copy), TOP), data, favs)

\* lines 159-178
FilterCryptos(category, data, favs, day) ==
    CASE category = "favorites" ->
           Returned(SelectSeq(data, LAMBDA crypto : crypto.id \in Range(favs)),
                    data, favs)
      [] category = "hot" ->
           Returned(SelectSeq(data, LAMBDA crypto :
                                 crypto.total_volume >= HOT_THRESHOLD),
                    data, favs)
      [] category = "new" ->
           LET thirtyDaysAgo == day - NEW_THRESHOLD
           IN Returned(SelectSeq(data, LAMBDA crypto :
                                    crypto.ath_date >= thirtyDaysAgo),
                       data, favs)
      [] category = "gainers" -> Gainers(data, favs)
      [] category = "meme" ->
           Returned(SelectSeq(data, LAMBDA crypto : crypto.id \in MEME_COINS),
                    data, favs)
      [] OTHER -> Returned(Slice(data, TOP), data, favs)

\* line 291: a render evaluates filterCryptos(tab)
Evaluate(category) ==
    /\ LET r == FilterCryptos(category, cryptoData, favorites, today)
       IN /\ view' = [category |-> category, result |-> r.result,
                      data |-> cryptoData, favs |-> favorites, day |-> today]
          /\ cryptoData' = r.cryptoData
          /\ favorites' = r.favorites
    /\ UNCHANGED <<phase, loading, error, sinceLast, isRefreshing, btnDisabled,
                   procs, intervals, ev, clicks, sinceAutoOk>>
    /\ UNCHANGED <<storage, persistDue, favInit, toggles, today>>

\* midnight passes
NextDay ==
    /\ today < FirstDay + MaxDays
    /\ today' = today + 1
    /\ UNCHANGED <<fetchVars, favVars, view>>

\* the page shows a fetched list
InitFilter ==
    /\ phase = "mounted"
    /\ cryptoData \in ShortLists \cup LongLists
    /\ favorites \in IF Len(cryptoData) <= MaxLen THEN FavoriteLists ELSE {<<>>}
    /\ loading = FALSE
    /\ error = NoError
    /\ sinceLast = 0
    /\ isRefreshing = FALSE
    /\ btnDisabled = TRUE
    /\ procs = [p \in Procs |-> FreeProc]
    /\ intervals = <<>>
    /\ ev = Quiet
    /\ clicks = 0
    /\ sinceAutoOk = 0
    /\ storage = Stringify(favorites)
    /\ favInit = favorites
    /\ toggles = [id \in Ids |-> 0]
    /\ persistDue = FALSE
    /\ InitViewVars

NextFilter ==
    \/ \E category \in Categories : Evaluate(category)
    \/ NextDay

SpecFilter == InitFilter /\ [][NextFilter]_vars

Init == InitFetchVars /\ InitFavVars /\ InitViewVars

Next ==
    \/ MountEffect
    \/ \E p \in Procs : \E outcome \in Outcomes : \E data \in Bodies :
          Respond(p, outcome, data)
    \/ \E p \in Procs : Timeout(p)
    \/ \E p \in Procs : Retry(p)
    \/ \E i \in 1..MaxIntervals : Tick(i)
    \/ ManualRefresh
    \/ Rerender
    \/ Advance

Spec == Init /\ [][Next]_vars

\* The same component with a user who clicks without limit, but only while
\* no call is in progress.  Timers that are due fire and time goes on.
FairNext ==
    \/ MountEffect
    \/ \E p \in Procs : \E outcome \in Outcomes : \E data \in Bodies :
          Respond(p, outcome, data)
    \/ \E p \in Procs : Timeout(p)
    \/ \E p \in Procs : Retry(p)
    \/ \E i \in 1..MaxIntervals : Tick(i)
    \/ PatientRefresh
    \/ Rerender
    \/ Advance

FairSpec ==
    /\ Init
    /\ [][FairNext]_vars
    /\ WF_vars(MountEffect)
    /\ WF_vars(Advance)
    /\ \A p \in Procs : WF_vars(Timeout(p)) /\ WF_vars(Retry(p))
    /\ \A i \in 1..MaxIntervals : WF_vars(Tick(i))

\* ------------------------------------------------------------------ claims
Active == {p \in Procs : procs[p].st # "free"}

\* C1: a fetch trigger that ends in failure while cryptoData is non-empty
\* leaves cryptoData unchanged; a failure never empties a non-empty list,
\* also when the failing call was started while the list was still empty.
C1_FailureKeepsData ==
    [][(ev'.op = "fail" /\ cryptoData # <<>>) => cryptoData' = cryptoData]_vars

\* C2: a trigger retries after an abort by the FETCH_TIMEOUT timer while
\* retries remain, issues at most MAX_RETRIES + 1 requests, and sets the
\* timed-out error only when the last of them was aborted too.
C2_RetryOnTimeout ==
    /\ \A p \in Procs : procs[p].reqs <= MAX_RETRIES + 1
    /\ \A p \in Procs : procs[p].st = "waiting" =>
          procs[p].retries > 0 /\ procs[p].clk <= RETRY_DELAY
    /\ ev.kind = "abort" =>
          IF ev.n <= MAX_RETRIES
          THEN ev.op = "wait" /\ ev.msg = NoError
          ELSE ev.op = "fail" /\ ev.msg = TimedOutMsg
    /\ ev.op = "retry" => ev.autoReqs + ev.manualReqs = 1 /\ ev.n >= 2
    /\ ev.op # "skip"
    /\ ev.msg = TimedOutMsg => ev.kind = "abort" /\ ev.n = MAX_RETRIES + 1

C2_Witness ==
    /\ ev.kind = "abort" /\ ev.op = "fail" /\ ev.n = MAX_RETRIES + 1
    /\ error = TimedOutMsg

\* C3: status 429 ends the trigger with the rate-limit message, another
\* non-OK status or a non-array body ends it with a generic failure message,
\* and only an abort by the timeout timer makes the trigger try again.
C3_OnlyTimeoutsRetried ==
    /\ ev.kind = "rate" => ev.op = "fail" /\ ev.msg = RateLimitMsg
    /\ ev.kind \in {"http", "invalid"} =>
          ev.op = "fail" /\ ev.msg \in {HttpMsg, InvalidMsg}
    /\ ev.op = "wait" => ev.kind = "abort"
    /\ (ev.op = "fail" /\ ev.autoReqs = 0) => error = ev.msg

C3_Witness ==
    /\ ev.kind = "rate" /\ ev.op = "fail" /\ ev.n = 1
    /\ error = RateLimitMsg
    /\ Active = {}

\* C4: at most one HTTP request issued by fetchCryptoData is outstanding.
C4_SingleInFlight == Cardinality(InFlight) <= 1

\* C5: at most one interval is active, and no interval of an effect run
\* that has been cleaned up is active.
C5_SingleTimer ==
    /\ Len(intervals) <= 1
    /\ \A i \in 1..Len(intervals) : intervals[i].live

\* C6: no request of a manual refresh is started less than 10000 ms after the
\* start of the most recent fetch that succeeded, nor while another manual
\* refresh is in progress.
C6_ManualThrottled ==
    /\ ev.manualReqs > 0 => sinceLast >= THROTTLE
    /\ Cardinality({p \in Active : procs[p].manual}) <= 1

\* C7: absent manual refreshes, once an automatic fetch has succeeded no
\* automatic request is started before AUTO_REFRESH_INTERVAL has passed
\* since that fetch completed.
C7_FixedInterval ==
    (clicks = 0 /\ ev.autoReqs > 0) => sinceAutoOk >= AUTO_REFRESH_INTERVAL

\* the scheduling effect has a timer, or its initFetch is still waiting for
\* its fetch and sets the timer when that ends
TimerSet == \E i \in 1..Len(intervals) : intervals[i].live
TimerComing == \E p \in Procs : procs[p].st # "free" /\ procs[p].run = "cur"

\* C8 as stated: an automatic fetch is started infinitely often, and a
\* trigger that ends in an error leaves an active interval timer.
C8_Original ==
    /\ []<>(ev.autoReqs > 0)
    /\ [](ev.op = "fail" => TimerSet)

\* C8: a trigger that ends in an error leaves the scheduling effect with an
\* active interval timer or with its initial fetch still pending, and
\* infinitely often an automatic fetch is started or the user refreshes
\* manually (every successful manual refresh restarts the interval); runs
\* that need more calls or intervals than MaxProcs and MaxIntervals end.
C8_RefreshSurvivesFailures ==
    /\ []<>(ev.autoReqs > 0 \/ ev.op = "click" \/ phase = "halted")
    /\ [](ev.op = "fail" => TimerSet \/ TimerComing)

\* the initial load failed, and the interval set after it starts a fetch
C8_Witness ==
    /\ ev.op = "tick" /\ ev.autoReqs = 1
    /\ cryptoData = <<>>
    /\ clicks = 0
    /\ TimerSet

\* C9: once the persistence effect has run, localStorage holds the
\* serialization of the current favorites, and a load of the component
\* initialises favorites to exactly that list.
C9_FavoritesMirrored ==
    ~persistDue =>
        /\ storage = Stringify(favorites)
        /\ InitialFavorites(storage) = favorites

C9_Witness ==
    /\ ~persistDue
    /\ Len(favorites) >= 2
    /\ favorites # favInit
    /\ storage = Stringify(favorites)

\* C10: from a duplicate-free list favorites stays duplicate-free, and an
\* id is in favorites exactly when it was toggled an odd number of times
\* relative to its membership at the load (so a toggle changes the
\* membership of its id only, and two toggles of an id restore the set).
C10_FavoritesAreASet ==
    /\ NoDup(favInit) => NoDup(favorites)
    /\ \A id \in Ids :
          (id \in Range(favorites)) =
              ((id \in Range(favInit)) # (toggles[id] = 1))

C10_Witness ==
    /\ NoDup(favInit)
    /\ favInit # <<>>
    /\ \E id \in Ids : toggles[id] = 1 /\ id \in Range(favInit)
    /\ \E id \in Ids : toggles[id] = 1 /\ id \notin Range(favInit)
    /\ \E id \in Ids : toggles[id] = 0 /\ id \in Range(favorites)

\* C13: while a call of a trigger is pending (its request in flight or its
\* RETRY_DELAY wait running), the flag of the trigger's kind is true.
C13_BusyFlagCovers ==
    \A p \in Active : IF procs[p].manual THEN isRefreshing ELSE loading

\* C14: lastFetchTime never decreases: a fetch that succeeds does not make
\* the time since lastFetchTime longer.
C14_NewerNotOverwritten ==
    [][(phase' = "mounted" /\ ev'.op = "ok") => sinceLast' <= sinceLast]_vars

\* a call in progress that was not started at this instant
Fresh(p) ==
    procs[p].st = "inflight" /\ procs[p].reqs = 1 /\ procs[p].clk = 0
Pending(p) == procs[p].st # "free" /\ ~Fresh(p)

\* how the call that ended in the last step left the state, when that step
\* started no other automatic call
DefiniteOutcome ==
    /\ ev.op = "ok" =>
          error = NoError /\ cryptoData # <<>> /\ sinceLast < FETCH_TIMEOUT
    /\ (ev.op = "fail" /\ ev.autoReqs = 0) =>
          error = ev.msg /\ ev.msg # NoError
    /\ (ev.op \in {"ok", "fail"} /\ ev.manual) => ~isRefreshing
    /\ (ev.op \in {"ok", "fail"} /\ ~ev.manual /\ ev.autoReqs = 0) => ~loading

\* C15: every call of fetchCryptoData in progress ends (its place is free or
\* taken by a call started later, unless the run ends at the bounds); a call
\* that ended with a success has set cryptoData and lastFetchTime and
\* error to null, one that ended with a failure has set a message, and
\* both have reset their busy flag.
C15_TriggersTerminate ==
    /\ []DefiniteOutcome
    /\ \A p \in Procs :
          Pending(p) ~> (procs[p].st = "free" \/ Fresh(p) \/ phase = "halted")

\* a trigger succeeded with a retry after a timeout
C15_Witness ==
    /\ ev.op = "ok" /\ ev.n >= 2 /\ ~ev.manual /\ ev.autoReqs = 0
    /\ Active = {}
    /\ ~loading /\ error = NoError

\* C16: a trigger that completes successfully leaves error null, and error
\* becomes a message only by a trigger that ends in failure; so when no
\* fetch is pending and error is a message, the trigger that completed
\* last ended in failure.
C16_ErrorIsLatestOutcome ==
    [][/\ (phase' = "mounted" /\ ev'.op = "ok") => error' = NoError
       /\ (error' # NoError /\ error' # error) => ev'.op = "fail"]_vars

\* a failure after a success: the list is kept and the message shown
C16_Witness ==
    /\ ev.op = "fail" /\ Active = {}
    /\ error # NoError
    /\ cryptoData # <<>>

\* C17: a call of fetchCryptoData from the interval or as a retry of an
\* automatic trigger, made less than 10000 ms after lastFetchTime while
\* cryptoData is non-empty, starts no request and leaves cryptoData,
\* lastFetchTime, error, loading and isRefreshing unchanged; a manual call
\* always starts its request.
C17_SkipHasNoEffect ==
    [][phase' = "mounted" =>
         /\ (/\ \/ ev'.op = "tick"
                \/ ev'.op \in {"retry", "skip"} /\ ~ev'.manual
             /\ sinceLast < THROTTLE
             /\ cryptoData # <<>>)
            => /\ ev'.autoReqs = 0
               /\ UNCHANGED <<cryptoData, sinceLast, error, loading,
                              isRefreshing>>
         /\ ev'.op = "click" => ev'.manualReqs = 1]_vars

\* the arrays of the state are as they were before the last evaluation
Untouched == view.category # "none" => cryptoData = view.data /\ favorites = view.favs

\* C11 as stated: filterCryptos leaves cryptoData and favorites unchanged,
\* and an evaluation with the same category, cryptoData and favorites as
\* the one before returns the same result.
C11_Original ==
    /\ []Untouched
    /\ [][(/\ view'.category = view.category
           /\ view'.data = view.data
           /\ view'.favs = view.favs) => view'.result = view.result]_vars

\* C11: filterCryptos leaves cryptoData and favorites unchanged, order
\* included, and an evaluation with the same category, cryptoData and
\* favorites as the one before returns the same result, for the view "new"
\* provided both are made on the same day (line 166 reads the clock).
C11_FiltersArePure ==
    /\ []Untouched
    /\ [][(/\ view'.category = view.category
           /\ view'.data = view.data
           /\ view'.favs = view.favs
           /\ view.category = "new" => view'.day = view.day)
             => view'.result = view.result]_vars

\* the gainers view was computed from a list it had to reorder
C11_Witness ==
    /\ view.category = "gainers"
    /\ view.result # Slice(view.data, TOP)
    /\ cryptoData = view.data
    /\ today > FirstDay

Count(l, x) == Cardinality({i \in 1..Len(l) : l[i] = x})

\* C12: the gainers view holds min(10, length) listings of cryptoData in
\* non-increasing order of price_change_percentage_24h, and no listing left
\* out has a strictly greater change than one included.
C12_GainersRanked ==
    view.category = "gainers" =>
        LET res == view.result
            pct(x) == x.price_change_percentage_24h
        IN /\ Len(res) = Min(TOP, Len(view.data))
           /\ \A i, j \in 1..Len(res) : i < j => pct(res[i]) >= pct(res[j])
           /\ \A x \in Range(res) : Count(res, x) <= Count(view.data, x)
           /\ \A x \in Range(view.data) :
                 Count(view.data, x) > Count(res, x) =>
                     \A y \in Range(res) : pct(x) <= pct(y)

\* a list longer than TOP whose first TOP listings are not the top gainers
C12_Witness ==
    /\ view.category = "gainers"
    /\ Len(view.data) > TOP
    /\ Len(view.result) = TOP
    /\ view.result # Slice(view.data, TOP)
    /\ \E x \in Range(view.data) : x \notin Range(view.result)

====
